---- MODULE Spec2Model ----
(***************************************************************************)
(* A model of convert-places-db.js: the conversion of a places.sqlite      *)
(* snapshot into a denormalized LevelDB key space.                         *)
(*                                                                         *)
(* Strings are sequences of one-character strings, compared by code unit   *)
(* as JavaScript and LevelDB compare them.  Numbers that exceed 32 bits    *)
(* (millisecond timestamps) are pairs [hi, lo] with value hi * 10^6 + lo.  *)
(* JavaScript's null and undefined of an id are 0, of a list <<>>, of a    *)
(* map entry the absence of the key.                                       *)
(***************************************************************************)
EXTENDS Integers, Sequences, FiniteSets, TLC

VARIABLES
  pc,                 \* the phase of kickoffConversions' chain in progress
  events,             \* what the chain has done so far, in order
  arg, ret,           \* input and result of a function applied on its own
  annoAttribsById, annotationsByBookmarkId,                   \* ctx maps
  annotationsByPlaceId, inputHistoryByPlaceId, faviconsById,
  visitsByPlaceId, bookmarkRoots, bookmarkHierarchy,
  bookmarksByPlaceId, tagsByPlaceId,
  keyByVisitId, lastTS, nextUnique,        \* locals of slurpHistoryVisits
  bookmarksById, flatBookmarks,            \* locals of slurpBookmarks
  batch, batchCount, faviconPersistedForReverseHost, \* transformPlaceRecords
  written, acked,     \* batches handed to batch.write; write callbacks fired
  visitRows, placeRows, \* the rows the scans have delivered so far
  annoRows, itemAnnoRows

ctxVars == <<annotationsByPlaceId, inputHistoryByPlaceId, faviconsById,
             visitsByPlaceId, bookmarkRoots, bookmarkHierarchy,
             bookmarksByPlaceId, tagsByPlaceId>>
visitVars == <<keyByVisitId, lastTS, nextUnique, visitRows>>
bookmarkVars == <<bookmarksById, flatBookmarks>>
transformVars == <<batch, batchCount, faviconPersistedForReverseHost,
                   written, acked, placeRows>>
annoVars == <<annoAttribsById, annotationsByBookmarkId, annoRows,
              itemAnnoRows>>
vars == <<pc, events, arg, ret, ctxVars, annoVars, visitVars, bookmarkVars,
          transformVars>>

----------------------------------------------------------------------------
(* JavaScript strings *)

\* The characters the model uses, in code-unit order.
AsciiOrder ==
  <<" ", "-", ".", "/", "0", "1", "2", "3", "4", "5", "6", "7", "8", "9", ":",
    "A", "B", "C", "D", "E", "F", "G", "H", "I", "J", "K", "L", "M", "N", "O",
    "P", "Q", "R", "S", "T", "U", "V", "W", "X", "Y", "Z", "_",
    "a", "b", "c", "d", "e", "f", "g", "h", "i", "j", "k", "l", "m", "n", "o",
    "p", "q", "r", "s", "t", "u", "v", "w", "x", "y", "z">>

Code(c) == CHOOSE i \in 1..Len(AsciiOrder) : AsciiOrder[i] = c

UpperCase == <<"A", "B", "C", "D", "E", "F", "G", "H", "I", "J", "K", "L", "M",
               "N", "O", "P", "Q", "R", "S", "T", "U", "V", "W", "X", "Y", "Z">>
LowerCase == <<"a", "b", "c", "d", "e", "f", "g", "h", "i", "j", "k", "l", "m",
               "n", "o", "p", "q", "r", "s", "t", "u", "v", "w", "x", "y", "z">>
DigitChars == <<"0", "1", "2", "3", "4", "5", "6", "7", "8", "9">>

Range(s) == {s[i] : i \in 1..Len(s)}

\* String.prototype.toLowerCase
ToLowerChar(c) ==
  IF c \in Range(UpperCase)
    THEN LowerCase[CHOOSE i \in 1..26 : UpperCase[i] = c]
    ELSE c
toLowerCase(s) == [i \in 1..Len(s) |-> ToLowerChar(s[i])]

\* The regular expression class \w; \W is its complement.
IsWordChar(c) ==
  c \in Range(UpperCase) \cup Range(LowerCase) \cup Range(DigitChars) \cup {"_"}

\* s < t as JavaScript compares strings: by code unit, a proper prefix first.
StrLess(s, t) ==
  \E i \in 1..(Len(t)) :
    /\ \A j \in 1..(i - 1) : j <= Len(s) /\ s[j] = t[j]
    /\ \/ i = Len(s) + 1
       \/ i <= Len(s) /\ Code(s[i]) < Code(t[i])

Min(a, b) == IF a < b THEN a ELSE b
Max(a, b) == IF a > b THEN a ELSE b

\* String.prototype.substring(0, end): a negative end counts as 0, an end
\* past the string as its length.
substring0(s, end) == SubSeq(s, 1, Min(Max(end, 0), Len(s)))

\* String.prototype.slice(0, -1)
sliceOffLast(s) == SubSeq(s, 1, Len(s) - 1)

----------------------------------------------------------------------------
(* JavaScript numbers beyond 32 bits: hi * 10^6 + lo, 0 <= lo < 10^6 *)

BigBase == 10 ^ 6
Big(hi, lo) == [hi |-> hi, lo |-> lo]
FromInt(n) == Big(n \div BigBase, n % BigBase)
BigNorm(hi, lo) == Big(hi + (lo \div BigBase), lo % BigBase)
BigSub(a, b) == BigNorm(a.hi - b.hi, a.lo - b.lo)
BigAdd(a, b) == BigNorm(a.hi + b.hi, a.lo + b.lo)
BigLess(a, b) == a.hi < b.hi \/ (a.hi = b.hi /\ a.lo < b.lo)
BigLeq(a, b) == a = b \/ BigLess(a, b)

RECURSIVE NatDigits(_)
NatDigits(n) ==
  IF n < 10 THEN <<DigitChars[n + 1]>>
  ELSE NatDigits(n \div 10) \o <<DigitChars[(n % 10) + 1]>>

RECURSIVE ZeroFill(_, _)
ZeroFill(s, width) == IF Len(s) >= width THEN s ELSE ZeroFill(<<"0">> \o s, width)

\* Number.prototype.toString of an integer
NumToString(a) ==
  LET mag == IF a.hi < 0 THEN BigSub(Big(0, 0), a) ELSE a
      digits == IF mag.hi = 0 THEN NatDigits(mag.lo)
                ELSE NatDigits(mag.hi) \o ZeroFill(NatDigits(mag.lo), 6)
  IN IF a.hi < 0 THEN <<"-">> \o digits ELSE digits

----------------------------------------------------------------------------
(* The lexicographic codec *)

ZEROES == [i \in 1..31 |-> "0"]

invertAndPadNumber(val, max, digits) ==
  LET unpadded == NumToString(BigSub(max, val))
  IN substring0(ZEROES, digits - Len(unpadded)) \o unpadded

OLDEST_LEGAL_DATE == Big(946684, 800000)         \* Date.UTC(2000, 0, 1)
MOST_FUTURE_LEGAL_DATE == Big(1924992, 0)        \* Date.UTC(2031, 0, 1)
DATE_DIGITS == Len(NumToString(BigSub(MOST_FUTURE_LEGAL_DATE, OLDEST_LEGAL_DATE)))

lexiformTimestamp(val) ==
  invertAndPadNumber(BigSub(val, OLDEST_LEGAL_DATE), MOST_FUTURE_LEGAL_DATE,
                     DATE_DIGITS)

MAX_FRECENCY == 1000000
FRECENCY_DIGITS == 6

\* invertAndPadNumber(row.frecency, MAX_FRECENCY, FRECENCY_DIGITS), as
\* emitAwesome calls it
EncodeFrecency(f) ==
  invertAndPadNumber(FromInt(f), FromInt(MAX_FRECENCY), FRECENCY_DIGITS)

----------------------------------------------------------------------------
(* Shared shapes *)

EmptyMap == <<>>
Put(m, k, v) == (k :> v) @@ m
Has(m, k) == k \in DOMAIN m

\* The state kickoffConversions starts from: every table still unread.
RunStart ==
  /\ annotationsByPlaceId = EmptyMap /\ inputHistoryByPlaceId = EmptyMap
  /\ faviconsById = EmptyMap /\ visitsByPlaceId = EmptyMap
  /\ bookmarkRoots = <<>> /\ bookmarkHierarchy = <<>>
  /\ bookmarksByPlaceId = EmptyMap /\ tagsByPlaceId = EmptyMap
  /\ keyByVisitId = EmptyMap /\ lastTS = Big(0, 0) /\ nextUnique = 0
  /\ bookmarksById = EmptyMap /\ flatBookmarks = <<>>
  /\ batch = <<>> /\ batchCount = 0 /\ faviconPersistedForReverseHost = {}
  /\ written = <<>> /\ acked = {}
  /\ visitRows = <<>> /\ placeRows = <<>>
  /\ annoAttribsById = EmptyMap /\ annotationsByBookmarkId = EmptyMap
  /\ annoRows = <<>> /\ itemAnnoRows = <<>>
  /\ events = <<>>

runVars == <<ctxVars, annoVars, visitVars, bookmarkVars, transformVars>>

\* The log of the chain: a scan's completion callback with the error it was
\* given or none, the call of the next phase by the chain (what follows
\* kickoffConversions' own call of slurpAnnotationAttribs), and the calls of
\* allDone and fatalError.
Ev(ev, phase, err) == [ev |-> ev, phase |-> phase, err |-> err]

\* A chain that calls the next phase whatever the completion callback was
\* given.
SettledIgnoringError(phase, err, next) ==
  events \o <<Ev("complete", phase, err), Ev("start", next, FALSE)>>

\* deferred.reject(err) makes the chain call fatalError and nothing else;
\* deferred.resolve() makes it call the next phase.
Settled(phase, err, next) ==
  events \o <<Ev("complete", phase, err)>>
         \o (IF err THEN <<Ev("fatalError", phase, TRUE)>>
             ELSE <<Ev("start", next, FALSE)>>)

----------------------------------------------------------------------------
(* The codec applied on its own to pairs of frecencies *)

CodecSpread == 3

FrecencySamples ==
  (0..CodecSpread) \cup ((MAX_FRECENCY - CodecSpread)..MAX_FRECENCY)
  \cup {10 ^ k : k \in 1..5} \cup {10 ^ k - 1 : k \in 1..5}

InitCodec ==
  /\ pc = "codec"
  /\ arg \in [a : FrecencySamples, b : FrecencySamples]
  /\ ret = <<>>
  /\ RunStart

ApplyEncodeFrecency ==
  /\ pc = "codec" /\ ret = <<>>
  /\ ret' = <<EncodeFrecency(arg.a), EncodeFrecency(arg.b)>>
  /\ UNCHANGED <<pc, events, arg, runVars>>

NextCodec == ApplyEncodeFrecency
SpecCodec == InitCodec /\ [][NextCodec]_vars

\* C1: for all a > b in [0, MAX_FRECENCY] the encoding of a is
\* lexicographically smaller than the encoding of b, and every encoding has
\* exactly FRECENCY_DIGITS characters.
C1_DescendingFixedWidth ==
  (pc = "codec" /\ ret # <<>>) =>
    /\ Len(ret[1]) = FRECENCY_DIGITS /\ Len(ret[2]) = FRECENCY_DIGITS
    /\ arg.a > arg.b => StrLess(ret[1], ret[2])

----------------------------------------------------------------------------
(* slurpHistoryVisits *)

\* AssignVisitKey with the counter read and not advanced
\* (key += '-' + nextUnique).
AssignVisitKeyNoIncrement(last, unique, visit_date) ==
  IF last = visit_date
    THEN [key |-> lexiformTimestamp(visit_date) \o <<"-">>
                    \o NatDigits(unique),
          lastTS |-> last, nextUnique |-> unique]
    ELSE [key |-> lexiformTimestamp(visit_date),
          lastTS |-> visit_date, nextUnique |-> 0]

\* The key of the row callback: the inverted timestamp, with '-' and the
\* uniqueifying counter when the row repeats lastTS.
AssignVisitKey(last, unique, visit_date) ==
  IF last = visit_date
    THEN [key |-> lexiformTimestamp(visit_date) \o <<"-">>
                    \o NatDigits(unique),
          lastTS |-> last, nextUnique |-> unique + 1]
    ELSE [key |-> lexiformTimestamp(visit_date),
          lastTS |-> visit_date, nextUnique |-> 0]

\* keyByVisitId[row.from_visit] || null
PrevKeyOf(keys, from_visit) ==
  IF Has(keys, from_visit) THEN keys[from_visit] ELSE <<>>

\* One call of the row callback.  ids are the scan positions: the callback
\* reads an id only to store and look up keys, so any other naming of the
\* same rows behaves alike.  The visitInfo it builds is stored nowhere:
\* visitsByPlaceId is read and left as it is.
SlurpHistoryVisitsRow(dates, places, froms) ==
  /\ pc = "slurpHistoryVisits"
  /\ \E visit_date \in dates, place_id \in places, from_visit \in froms :
       LET id == Len(visitRows) + 1
           row == [id |-> id, place_id |-> place_id,
                   visit_date |-> visit_date, from_visit |-> from_visit]
           k == AssignVisitKey(lastTS, nextUnique, visit_date)
           keys == Put(keyByVisitId, id, k.key)
           visitInfo == [key |-> k.key,
                         prevKey |-> PrevKeyOf(keys, from_visit)]
       IN \* ORDER BY visit_date ASC
          /\ visitRows # <<>> =>
               BigLeq(visitRows[Len(visitRows)].visit_date, visit_date)
          /\ keyByVisitId' = keys
          /\ lastTS' = k.lastTS
          /\ nextUnique' = k.nextUnique
          /\ visitRows' = Append(visitRows, row)
  /\ UNCHANGED <<pc, events, annoVars, arg, ret, ctxVars, bookmarkVars,
                 transformVars>>

\* The scan's completion callback: reject on an error, else resolve, which
\* makes the chain call slurpBookmarkRoots.
SlurpHistoryVisitsComplete ==
  /\ pc = "slurpHistoryVisits"
  /\ \E err \in BOOLEAN :
       /\ pc' = IF err THEN "fatalError" ELSE "slurpBookmarkRoots"
       /\ events' = Settled(pc, err, "slurpBookmarkRoots")
  /\ UNCHANGED <<arg, ret, runVars>>

MaxVisits == 3

\* Visit dates around the edges of the legal range: 0 (the initial lastTS),
\* the oldest legal date and the millisecond after it, the two dates where
\* the inverted value drops from 13 digits to 12, the most future legal
\* date, and a date past it whose inverted value is negative.
VisitDateSamples ==
  { Big(0, 0),
    OLDEST_LEGAL_DATE, BigAdd(OLDEST_LEGAL_DATE, Big(0, 1)),
    Big(1871676, 800000), Big(1871676, 800001),
    MOST_FUTURE_LEGAL_DATE,
    BigAdd(BigAdd(MOST_FUTURE_LEGAL_DATE, OLDEST_LEGAL_DATE), Big(0, 5)) }

IsLegalDate(d) ==
  BigLeq(OLDEST_LEGAL_DATE, d) /\ BigLeq(d, MOST_FUTURE_LEGAL_DATE)

InitVisits ==
  /\ pc = "slurpHistoryVisits" /\ arg = <<>> /\ ret = <<>>
  /\ RunStart

VisitsRow ==
  /\ Len(visitRows) < MaxVisits
  /\ SlurpHistoryVisitsRow(VisitDateSamples, 1..2,
                           {0, Len(visitRows)})

NextVisits == VisitsRow \/ SlurpHistoryVisitsComplete
SpecVisits == InitVisits /\ [][NextVisits]_vars

\* C2: of two scanned visits with legal timestamps t1 < t2, the later one
\* has the lexicographically smaller key.
C2_NewestFirst ==
  \A i, j \in 1..Len(visitRows) :
    ( /\ IsLegalDate(visitRows[i].visit_date)
      /\ IsLegalDate(visitRows[j].visit_date)
      /\ BigLess(visitRows[i].visit_date, visitRows[j].visit_date) )
    => StrLess(keyByVisitId[j], keyByVisitId[i])

\* How many rows right before row i carry row i's visit_date.
RECURSIVE RepeatsBefore(_, _)
RepeatsBefore(rows, i) ==
  IF i > 1 /\ rows[i - 1].visit_date = rows[i].visit_date
    THEN 1 + RepeatsBefore(rows, i - 1)
    ELSE 0

\* The run of equal dates that row i is in opens the scan with the date 0,
\* which the initial lastTS already equals.
InLeadingZeroRun(rows, i) ==
  /\ rows[i].visit_date = Big(0, 0)
  /\ RepeatsBefore(rows, i) = i - 1

\* C3: no two visit ids share a key; a row that repeats the previous row's
\* timestamp carries the disambiguator, which counts the repeats from 0 and
\* starts over when the timestamp changes (the rows of a leading run of
\* date 0 all carry it, the first included).
C3_KeysCollisionFree ==
  /\ \A i, j \in DOMAIN keyByVisitId :
       i # j => keyByVisitId[i] # keyByVisitId[j]
  /\ \A i \in 1..Len(visitRows) :
       LET base == lexiformTimestamp(visitRows[i].visit_date)
           n == RepeatsBefore(visitRows, i)
       IN keyByVisitId[i] =
            IF InLeadingZeroRun(visitRows, i)
              THEN base \o <<"-">> \o NatDigits(n)
            ELSE IF n = 0 THEN base
            ELSE base \o <<"-">> \o NatDigits(n - 1)

\* Three rows in a row carry one timestamp and have their keys.
C3_Witness ==
  /\ Len(visitRows) >= 3
  /\ \E i \in 3..Len(visitRows) :
       /\ visitRows[i].visit_date = visitRows[i - 1].visit_date
       /\ visitRows[i].visit_date = visitRows[i - 2].visit_date
       /\ {i - 2, i - 1, i} \subseteq DOMAIN keyByVisitId

----------------------------------------------------------------------------
(* slurpBookmarkRoots and slurpBookmarks *)

S_tags == <<"t", "a", "g", "s">>
S_menu == <<"m", "e", "n", "u">>
S_work == <<"w", "o", "r", "k">>
S_home == <<"H", "o", "m", "e">>

\* bookmarkRoots and bookmarkHierarchy are objects keyed by root name; a
\* for-in loop walks them in insertion order, so both are sequences of
\* [root_name, folder_id] here.  root_name is UNIQUE in moz_bookmarks_roots.
RootNames(roots) == {roots[i].root_name : i \in 1..Len(roots)}

SlurpBookmarkRootsRow(names, ids) ==
  /\ pc = "slurpBookmarkRoots"
  /\ \E root_name \in names \ RootNames(bookmarkRoots), folder_id \in ids :
       bookmarkRoots' = Append(bookmarkRoots,
                          [root_name |-> root_name, folder_id |-> folder_id])
  /\ UNCHANGED <<pc, events, annoVars, arg, ret,
                 annotationsByPlaceId, inputHistoryByPlaceId,
                 faviconsById, visitsByPlaceId, bookmarkHierarchy,
                 bookmarksByPlaceId, tagsByPlaceId, visitVars, bookmarkVars,
                 transformVars>>

SlurpBookmarkRootsComplete ==
  /\ pc = "slurpBookmarkRoots"
  /\ \E err \in BOOLEAN :
       /\ pc' = IF err THEN "fatalError" ELSE "slurpBookmarks"
       /\ events' = Settled(pc, err, "slurpBookmarks")
  /\ UNCHANGED <<arg, ret, runVars>>

\* One call of slurpBookmarks' row callback.  A hierInfo is addressed by
\* its id (the scan position, as for visits); flatBookmarks lists ids.  The
\* columns the callback copies and nothing reads again (position, keyword,
\* dateAdded, lastModified, guid, annotations) are left out; url and tags
\* are absent until transformPlaceRecords sets them.  The list the callback
\* pushes to when bookmarksByPlaceId has no entry is never stored, so
\* bookmarksByPlaceId stays as it is.
SlurpBookmarksRow(parents, kinds) ==
  /\ pc = "slurpBookmarks"
  /\ \E parent \in parents, kind \in kinds :
       LET id == Len(flatBookmarks) + 1
           hierInfo == [id |-> id, placeId |-> kind.fk, parentId |-> parent,
                        title |-> kind.title, tags |-> <<>>, kids |-> <<>>,
                        url |-> <<>>]
       IN /\ flatBookmarks' = Append(flatBookmarks, id)
          /\ bookmarksById' = Put(bookmarksById, id, hierInfo)
  /\ UNCHANGED <<pc, events, annoVars, arg, ret, ctxVars, visitVars,
                 transformVars>>

\* ctx.bookmarkRoots['tags']; -1 stands for undefined, which no parentId
\* (an id, or 0 for null) is strictly equal to.
TagRootId(roots) ==
  IF S_tags \in RootNames(roots)
    THEN roots[CHOOSE i \in 1..Len(roots) : roots[i].root_name = S_tags]
           .folder_id
    ELSE -1

\* "- link roots": one turn of the for-in loop over ctx.bookmarkRoots.  The
\* hierarchy entry is assigned first; setting the title of a root that has
\* no bookmark row throws a TypeError.
LinkRoot(st, root) ==
  LET hier == Append(st.hier, root)
  IN IF Has(st.byId, root.folder_id)
       THEN [st EXCEPT !.hier = hier,
                       !.byId[root.folder_id].title = root.root_name]
       ELSE [st EXCEPT !.hier = hier, !.threw = TRUE]

\* LinkChild with "else if (parentHierInfo)" written as a plain "if": a tag
\* is pushed to the kids of the tags root as well.
LinkChildAlsoUnderTagsRoot(st, id, TAG_ROOT_ID) ==
  LET hierInfo == st.byId[id]
      parentKnown == Has(st.byId, hierInfo.parentId)
      tagged ==
        IF hierInfo.parentId = TAG_ROOT_ID
          THEN IF parentKnown
                 THEN LET tags == IF Has(st.tags, hierInfo.placeId)
                                    THEN st.tags[hierInfo.placeId] ELSE <<>>
                      IN [st EXCEPT !.tags =
                            Put(st.tags, hierInfo.placeId,
                                Append(tags,
                                       st.byId[hierInfo.parentId].title))]
                 ELSE [st EXCEPT !.threw = TRUE]
          ELSE st
  IN IF parentKnown /\ ~tagged.threw
       THEN [tagged EXCEPT !.byId[hierInfo.parentId].kids = Append(@, id)]
       ELSE tagged

\* "- link children to their parents": one turn of flatBookmarks.forEach.
\* A bookmark whose parent is the tags root adds the parent's title to the
\* tags of its own placeId; any other bookmark with a known parent is
\* pushed to the parent's kids.
LinkChild(st, id, TAG_ROOT_ID) ==
  LET hierInfo == st.byId[id]
      parentKnown == Has(st.byId, hierInfo.parentId)
  IN IF hierInfo.parentId = TAG_ROOT_ID
       THEN IF parentKnown
              THEN LET tags == IF Has(st.tags, hierInfo.placeId)
                                 THEN st.tags[hierInfo.placeId] ELSE <<>>
                   IN [st EXCEPT !.tags =
                         Put(st.tags, hierInfo.placeId,
                             Append(tags, st.byId[hierInfo.parentId].title))]
              ELSE [st EXCEPT !.threw = TRUE]
     ELSE IF parentKnown
       THEN [st EXCEPT !.byId[hierInfo.parentId].kids = Append(@, id)]
     ELSE st

RECURSIVE LinkRoots(_, _, _)
LinkRoots(st, roots, i) ==
  IF i > Len(roots) \/ st.threw THEN st
  ELSE LinkRoots(LinkRoot(st, roots[i]), roots, i + 1)

RECURSIVE LinkChildren(_, _, _, _)
LinkChildren(st, flat, i, TAG_ROOT_ID) ==
  IF i > Len(flat) \/ st.threw THEN st
  ELSE LinkChildren(LinkChild(st, flat[i], TAG_ROOT_ID), flat, i + 1,
                    TAG_ROOT_ID)

\* The scan's completion callback.  An exception thrown in it is caught by
\* nobody: the promise is never settled and the process dies.
SlurpBookmarksComplete ==
  /\ pc = "slurpBookmarks"
  /\ \E err \in BOOLEAN :
       IF err
         THEN /\ pc' = "fatalError"
              /\ events' = Settled(pc, TRUE, pc)
              /\ UNCHANGED <<bookmarkHierarchy, tagsByPlaceId, bookmarksById>>
         ELSE LET st0 == [byId |-> bookmarksById, hier |-> bookmarkHierarchy,
                          tags |-> tagsByPlaceId, threw |-> FALSE]
                  st1 == LinkRoots(st0, bookmarkRoots, 1)
                  st2 == LinkChildren(st1, flatBookmarks, 1,
                                      TagRootId(bookmarkRoots))
              IN /\ bookmarkHierarchy' = st2.hier
                 /\ tagsByPlaceId' = st2.tags
                 /\ bookmarksById' = st2.byId
                 /\ pc' = IF st2.threw THEN "crashed"
                          ELSE "transformPlaceRecords"
                 /\ events' =
                      IF st2.threw
                        THEN Append(events, Ev("complete", pc, FALSE))
                        ELSE Settled(pc, FALSE, "transformPlaceRecords")
  /\ UNCHANGED <<annoVars, arg, ret,
                 annotationsByPlaceId, inputHistoryByPlaceId,
                 faviconsById, visitsByPlaceId, bookmarkRoots,
                 bookmarksByPlaceId, visitVars, flatBookmarks, transformVars>>

\* The bookmarks writeBookmarks' traverseBookmark is called on: every root
\* of ctx.bookmarkHierarchy but 'tags', and the kids of each bookmark it is
\* called on.
RECURSIVE KidsClosure(_)
KidsClosure(ids) ==
  LET known == {id \in ids : Has(bookmarksById, id)}
      more == ids \cup UNION {Range(bookmarksById[id].kids) : id \in known}
  IN IF more = ids THEN ids ELSE KidsClosure(more)

TraversedBookmarks ==
  KidsClosure({bookmarkHierarchy[i].folder_id : i \in
                 {j \in 1..Len(bookmarkHierarchy) :
                    bookmarkHierarchy[j].root_name # S_tags}})

MaxBookmarks == 3

BookmarkKinds == { [fk |-> 0, title |-> S_work], [fk |-> 1, title |-> S_home] }

InitBookmarks ==
  /\ pc = "slurpBookmarkRoots" /\ arg = <<>> /\ ret = <<>>
  /\ RunStart

BookmarkRootsRow == SlurpBookmarkRootsRow({S_tags, S_menu}, 1..MaxBookmarks)

BookmarksRow ==
  /\ Len(flatBookmarks) < MaxBookmarks
  /\ SlurpBookmarksRow(0..MaxBookmarks, BookmarkKinds)

NextBookmarks ==
  \/ BookmarkRootsRow \/ SlurpBookmarkRootsComplete
  \/ BookmarksRow \/ SlurpBookmarksComplete
SpecBookmarks == InitBookmarks /\ [][NextBookmarks]_vars

SlurpBookmarksCompleted == pc = "transformPlaceRecords"

RootIds == {bookmarkRoots[i].folder_id : i \in 1..Len(bookmarkRoots)}

\* The bookmarks whose parentId is the Tags root id
TagBookmarks ==
  {id \in DOMAIN bookmarksById :
     bookmarksById[id].parentId = TagRootId(bookmarkRoots)}

\* C7: after slurpBookmarks, the tags of a non-root bookmark's placeId
\* contain the bookmark's own title when its parent is the Tags root.
C7_TagIsOwnTitle ==
  SlurpBookmarksCompleted =>
    \A id \in TagBookmarks \ RootIds :
      /\ Has(tagsByPlaceId, bookmarksById[id].placeId)
      /\ bookmarksById[id].title
           \in Range(tagsByPlaceId[bookmarksById[id].placeId])

\* C8 as stated: after slurpBookmarks, a bookmark whose parentId is the
\* Tags root id is in no kids list and is not traversed.
C8_TagNeverTraversed ==
  SlurpBookmarksCompleted =>
    \A id \in TagBookmarks :
      /\ \A p \in DOMAIN bookmarksById : id \notin Range(bookmarksById[p].kids)
      /\ id \notin TraversedBookmarks

\* C8 amended: after slurpBookmarks, a bookmark whose parentId is the Tags
\* root id is in no kids list, and the traversal reaches it only as a root
\* it starts from.
C8_TagNotAKid ==
  SlurpBookmarksCompleted =>
    \A id \in TagBookmarks :
      /\ \A p \in DOMAIN bookmarksById : id \notin Range(bookmarksById[p].kids)
      /\ id \in TraversedBookmarks =>
           \E i \in 1..Len(bookmarkHierarchy) :
             /\ bookmarkHierarchy[i].folder_id = id
             /\ bookmarkHierarchy[i].root_name # S_tags

\* The Tags root is a kid of a traversed root and is traversed itself, and
\* a bookmark whose parent it is is not.
C8_Witness ==
  /\ SlurpBookmarksCompleted
  /\ TagRootId(bookmarkRoots) \in TraversedBookmarks
  /\ \E p \in TraversedBookmarks :
       TagRootId(bookmarkRoots) \in Range(bookmarksById[p].kids)
  /\ \E id \in TagBookmarks : id \notin TraversedBookmarks

----------------------------------------------------------------------------
(* extractTermsForPlace and the awesomebar entries *)

\* String.prototype.split('.'): every '.' ends a piece.
RECURSIVE SplitDots(_, _, _, _)
SplitDots(s, i, cur, out) ==
  IF i > Len(s) THEN Append(out, cur)
  ELSE IF s[i] = "." THEN SplitDots(s, i + 1, <<>>, Append(out, cur))
  ELSE SplitDots(s, i + 1, Append(cur, s[i]), out)
splitDot(s) == SplitDots(s, 1, <<>>, <<>>)

\* String.prototype.split(/\W+/g): every run of non-word characters ends a
\* piece, so a string that starts or ends with one yields an empty piece.
RECURSIVE SplitNonWords(_, _, _, _)
SplitNonWords(s, i, cur, out) ==
  IF i > Len(s) THEN Append(out, cur)
  ELSE IF IsWordChar(s[i]) THEN SplitNonWords(s, i + 1, Append(cur, s[i]), out)
  ELSE IF i > 1 /\ ~IsWordChar(s[i - 1]) THEN SplitNonWords(s, i + 1, cur, out)
  ELSE SplitNonWords(s, i + 1, <<>>, Append(out, cur))
splitNonWord(s) == SplitNonWords(s, 1, <<>>, <<>>)

StopWords == { <<"t", "h", "e">>, <<"w", "w", "w">>, <<"c", "o", "m">>,
               <<"o", "r", "g">>, <<"n", "e", "t">> }

\* maybeAddTerm: the term is pushed when terms.indexOf(term) !== -1, that
\* is, when it is in terms already.
maybeAddTerm(terms, term0) ==
  LET term == toLowerCase(term0)
  IN IF Len(term) < 3 THEN terms
     ELSE IF term \in StopWords THEN terms
     ELSE IF term \in Range(terms) THEN Append(terms, term)
     ELSE terms

RECURSIVE AddTerms(_, _, _)
AddTerms(terms, pieces, i) ==
  IF i > Len(pieces) THEN terms
  ELSE AddTerms(maybeAddTerm(terms, pieces[i]), pieces, i + 1)

\* extractTermsForPlace(url, title, bookmarks, tags), url being the parsed
\* url.  A null hostname or title is <<>>.  The callback of
\* bookmarks.forEach reads bookmarks.title, the title property of the array,
\* which is undefined: the first linked bookmark makes split throw a
\* TypeError.
extractTermsForPlace(url, title, bookmarks, tags) ==
  LET t1 == IF url.hostname # <<>>
              THEN LET labels == splitDot(url.hostname)
                   IN AddTerms(<<>>, SubSeq(labels, 1, Len(labels) - 1), 1)
              ELSE <<>>
      t2 == IF title # <<>> THEN AddTerms(t1, splitNonWord(title), 1) ELSE t1
  IN IF bookmarks # <<>>
       THEN [terms |-> t2, threw |-> TRUE]
       ELSE [terms |-> AddTerms(t2, tags, 1), threw |-> FALSE]

\* lowestPrefixToEmitGivenFrecency(frecency, length); a number is <<n>>, an
\* argument the caller leaves out (undefined) is <<>>.
lowestPrefixToEmitGivenFrecency(frecency, length) ==
  IF frecency > 10000 THEN <<1>> ELSE length

\* n >= x in JavaScript: false when x is undefined (NaN compares false).
JsGeq(n, x) == x # <<>> /\ n >= x[1]

\* emitAwesome(magic, term) of a place row: the put it adds to the batch.
emitAwesome(magic, term, row, pathname) ==
  [ns |-> "A",
   key |-> <<magic, EncodeFrecency(row.frecency), term, row.rev_host,
             pathname>>,
   value |-> row.url]

\* The while loop of terms.forEach: magic loses its last character for as
\* long as magic.length >= lowestPrefix.
RECURSIVE EmitPrefixes(_, _, _, _, _)
EmitPrefixes(magic, lowestPrefix, term, row, pathname) ==
  IF JsGeq(Len(magic), lowestPrefix)
    THEN <<emitAwesome(magic, term, row, pathname)>>
         \o EmitPrefixes(sliceOffLast(magic), lowestPrefix, term, row, pathname)
    ELSE <<>>

\* The body of terms.forEach for one term.  The call passes the frecency
\* alone: lowestPrefixToEmitGivenFrecency(row.frecency).
EmitTerm(term, row, pathname) ==
  EmitPrefixes(term, lowestPrefixToEmitGivenFrecency(row.frecency, <<>>),
               term, row, pathname)

----------------------------------------------------------------------------
(* extractTermsForPlace and terms.forEach applied on their own *)

S_food == <<"f", "o", "o", "d">>
S_Food == <<"F", "o", "o", "d">>

HostnameSamples ==
  { <<>>,
    <<"w", "w", "w", ".", "f", "o", "o", "d", ".", "o", "r", "g">>,
    <<"f", "o", "o", "d", ".", "f", "o", "o", "d", ".", "n", "e", "t">>,
    <<"a", "b", ".", "c", "o", "m">> }

TitleSamples ==
  { <<>>,
    S_Food,
    <<"T", "h", "e", " ", "f", "o", "o", "d", " ", "-", " ", "W", "e", "b">>,
    <<" ", "o", "f", " ", "w", "e", "b", " ", "w", "e", "b">> }

TagSamples == { <<>>, <<S_food>>, <<S_work, S_work>> }
LinkedBookmarkSamples == { <<>>, <<[title |-> S_home]>> }
\* Terms as extractTermsForPlace is meant to return them: lowercase, of
\* length >= 3, no stop word.
TermSamples == { <<"w", "e", "b">>, S_work, S_food }
TermFrecencySamples == { 0, 10000, 10001, 50000, MAX_FRECENCY }

\* The row columns emitAwesome reads
AwesomeRow(frecency) ==
  [frecency |-> frecency, rev_host |-> <<"g", "r", "o", ".">>,
   url |-> <<"u">>]

InitTerms ==
  /\ pc = "terms"
  /\ arg \in [op : {"extract"}, hostname : HostnameSamples,
              title : TitleSamples, bookmarks : LinkedBookmarkSamples,
              tags : TagSamples]
             \cup [op : {"emit"}, term : TermSamples,
                   frecency : TermFrecencySamples]
  /\ ret = <<>>
  /\ RunStart

ApplyExtractTerms ==
  /\ pc = "terms" /\ arg.op = "extract" /\ ret = <<>>
  /\ ret' = <<extractTermsForPlace([hostname |-> arg.hostname], arg.title,
                                   arg.bookmarks, arg.tags)>>
  /\ UNCHANGED <<pc, events, arg, runVars>>

ApplyEmitTerm ==
  /\ pc = "terms" /\ arg.op = "emit" /\ ret = <<>>
  /\ ret' = <<EmitTerm(arg.term, AwesomeRow(arg.frecency), <<"/">>)>>
  /\ UNCHANGED <<pc, events, arg, runVars>>

NextTerms == ApplyExtractTerms \/ ApplyEmitTerm
SpecTerms == InitTerms /\ [][NextTerms]_vars

Flatten(seqs) ==
  UNION {Range(seqs[i]) : i \in 1..Len(seqs)}

\* The tokens the claim names: hostname labels but the last, title words,
\* the words of every linked bookmark's title and the tags, lowercased, of
\* length >= 3 and no stop word.
ExpectedTerms(a) ==
  LET labels == IF a.hostname = <<>> THEN <<>> ELSE splitDot(a.hostname)
      raw == Range(SubSeq(labels, 1, Len(labels) - 1))
             \cup (IF a.title = <<>> THEN {} ELSE Range(splitNonWord(a.title)))
             \cup Flatten([i \in 1..Len(a.bookmarks) |->
                             splitNonWord(a.bookmarks[i].title)])
             \cup Range(a.tags)
  IN {t \in {toLowerCase(r) : r \in raw} : Len(t) >= 3 /\ t \notin StopWords}

\* C9: extractTermsForPlace returns exactly the expected tokens, each once.
C9_TermsExactlyOnce ==
  (pc = "terms" /\ arg.op = "extract" /\ ret # <<>>) =>
    /\ ~ret[1].threw
    /\ Range(ret[1].terms) = ExpectedTerms(arg)
    /\ Len(ret[1].terms) = Cardinality(ExpectedTerms(arg))

\* C10: a term of a place with frecency above 10000 yields one 'A' entry
\* per prefix from length 1 to the full term; at 10000 or below it yields
\* exactly one, whose magic is the full term.
C10_PrefixesByFrecency ==
  (pc = "terms" /\ arg.op = "emit" /\ ret # <<>>) =>
    LET entries == ret[1]
        n == Len(arg.term)
    IN /\ \A i \in 1..Len(entries) :
            entries[i].ns = "A" /\ entries[i].key[3] = arg.term
       /\ IF arg.frecency > 10000
            THEN /\ Len(entries) = n
                 /\ {entries[i].key[1] : i \in 1..Len(entries)}
                      = {SubSeq(arg.term, 1, k) : k \in 1..n}
            ELSE /\ Len(entries) = 1
                 /\ entries[1].key[1] = arg.term

----------------------------------------------------------------------------
(* transformPlaceRecords *)

BATCH_LIMIT == 1000

\* $url.parse(url) of a url "scheme://host/path": the hostname, lowercased,
\* and the pathname, "/" when the url ends with the host.  A url without
\* "://" has no hostname (null) and keeps what follows the scheme as its
\* pathname.
SchemeEnd(url) ==
  LET at == {i \in 1..Len(url) : url[i] = ":"}
  IN IF at = {} THEN 0 ELSE CHOOSE i \in at : \A j \in at : i <= j

urlParse(url) ==
  LET c == SchemeEnd(url)
      slashed == c > 0 /\ c + 2 <= Len(url)
                   /\ url[c + 1] = "/" /\ url[c + 2] = "/"
      rest == SubSeq(url, c + 3, Len(url))
      cut == {i \in 1..Len(rest) : rest[i] = "/"}
      hostEnd == IF cut = {} THEN Len(rest) + 1
                 ELSE CHOOSE i \in cut : \A j \in cut : i <= j
  IN IF slashed
       THEN [hostname |-> toLowerCase(SubSeq(rest, 1, hostEnd - 1)),
             pathname |-> IF cut = {} THEN <<"/">>
                          ELSE SubSeq(rest, hostEnd, Len(rest))]
       ELSE [hostname |-> <<>>, pathname |-> SubSeq(url, c + 1, Len(url))]

\* visits.forEach: an 'H' put and an 'h' put per visit of the place.  The
\* 'h' key is built from reversedHost and url alone.
RECURSIVE VisitPuts(_, _, _)
VisitPuts(visits, row, i) ==
  IF i > Len(visits) THEN <<>>
  ELSE << [ns |-> "H", key |-> <<visits[i].key>>,
           value |-> [url |-> row.url, prevKey |-> visits[i].prevKey]],
          [ns |-> "h", key |-> <<row.rev_host, row.url>>, value |-> <<>>] >>
       \o VisitPuts(visits, row, i + 1)

RECURSIVE TermPuts(_, _, _, _)
TermPuts(terms, row, pathname, i) ==
  IF i > Len(terms) THEN <<>>
  ELSE EmitTerm(terms[i], row, pathname) \o TermPuts(terms, row, pathname, i + 1)

\* The for-in loop over the place's input history (a sequence of
\* [input, useCount] in insertion order): an 'a' put, an 'A' put for the
\* typed string and, when the string has two characters or more and its
\* one-shorter prefix was not typed itself, an 'A' put for that prefix.
RECURSIVE InputPuts(_, _, _, _)
InputPuts(inputs, row, pathname, i) ==
  IF i > Len(inputs) THEN <<>>
  ELSE LET typed == inputs[i].input
           typedPrefix == sliceOffLast(typed)
           own == {inputs[j].input : j \in 1..Len(inputs)}
       IN << [ns |-> "a", key |-> <<typed, row.url>>,
              value |-> [useCount |-> inputs[i].useCount]],
             emitAwesome(typed, typed, row, pathname) >>
          \o (IF Len(typed) >= 2 /\ typedPrefix \notin own
                THEN <<emitAwesome(typedPrefix, typed, row, pathname)>>
                ELSE <<>>)
          \o InputPuts(inputs, row, pathname, i + 1)

\* "-- fix-up bookmarks": every bookmark listed for the place gets the
\* place's url and tags.
RECURSIVE FixUpBookmarks(_, _, _, _, _)
FixUpBookmarks(byId, linked, url, tags, i) ==
  IF i > Len(linked) THEN byId
  ELSE FixUpBookmarks([byId EXCEPT ![linked[i]].url = url,
                                   ![linked[i]].tags = tags],
                      linked, url, tags, i + 1)

Lookup(m, k) == IF Has(m, k) THEN m[k] ELSE <<>>

\* One call of transformPlaceRecords' row callback.  The columns copied to
\* the 'I' value and read by nothing else (visit_count, typed,
\* last_visit_date, guid) are left out.  The batch is written when
\* batchCount, read before it is incremented, has reached BATCH_LIMIT.
TransformPlaceRow(row) ==
  /\ pc = "transformPlaceRecords"
  /\ LET reversedHost == row.rev_host
         placeId == row.id
         fresh == reversedHost \notin faviconPersistedForReverseHost
         infoValue == [title |-> row.title, frecency |-> row.frecency,
                       favicon |-> IF fresh
                                     THEN Lookup(faviconsById, row.favicon_id)
                                     ELSE <<>>,
                       annotations |-> Lookup(annotationsByPlaceId, placeId)]
         linkedBookmarks == Lookup(bookmarksByPlaceId, placeId)
         tags == Lookup(tagsByPlaceId, placeId)
         visits == Lookup(visitsByPlaceId, placeId)
         parsedUrl == urlParse(row.url)
         extracted == extractTermsForPlace(parsedUrl, row.title,
                                           linkedBookmarks, tags)
         early == batch
                  \o << [ns |-> "I", key |-> <<reversedHost, row.url>>,
                         value |-> infoValue] >>
                  \o VisitPuts(visits, row, 1)
         full == early
                 \o TermPuts(extracted.terms, row, parsedUrl.pathname, 1)
                 \o InputPuts(Lookup(inputHistoryByPlaceId, placeId), row,
                              parsedUrl.pathname, 1)
     IN /\ faviconPersistedForReverseHost' =
             faviconPersistedForReverseHost \cup {reversedHost}
        /\ bookmarksById' =
             FixUpBookmarks(bookmarksById, linkedBookmarks, row.url, tags, 1)
        /\ placeRows' = Append(placeRows, row)
        /\ IF extracted.threw
             THEN /\ pc' = "crashed"
                  /\ batch' = early
                  /\ UNCHANGED <<batchCount, written>>
           ELSE IF batchCount >= BATCH_LIMIT
             THEN /\ written' = Append(written, full)
                  /\ batch' = <<>>
                  /\ batchCount' = 0
                  /\ pc' = pc
           ELSE /\ batch' = full
                /\ batchCount' = batchCount + 1
                /\ UNCHANGED <<pc, written>>
  /\ UNCHANGED <<events, annoVars, arg, ret, ctxVars, visitVars,
                 flatBookmarks, acked>>

\* The scan's completion callback: the last batch is written, and the
\* promise is settled by the callback of that write.
TransformComplete ==
  /\ pc = "transformPlaceRecords"
  /\ \E err \in BOOLEAN :
       /\ pc' = IF err THEN "lastWriteThenReject" ELSE "lastWriteThenResolve"
       /\ events' = Append(events, Ev("complete", pc, err))
  /\ written' = Append(written, batch)
  /\ UNCHANGED <<annoVars, arg, ret, ctxVars, visitVars, bookmarkVars, batch,
                 batchCount, faviconPersistedForReverseHost, acked, placeRows>>

\* The batches handed to batch.write whose callback has not fired.  acked
\* holds, for each callback fired, the batch (its position in written) and
\* whether the commit failed.
Outstanding == (1..Len(written)) \ {a.n : a \in acked}

\* The last batch written is the one of the completion callback once the
\* scan has completed.
IsLastWrite(n) ==
  /\ pc \in {"lastWriteThenReject", "lastWriteThenResolve"}
  /\ n = Len(written)

\* The callback of a batch.write of the row callback: it logs, whatever
\* the outcome of the commit.  The store fires it when the commit is done,
\* in no order the program controls.
BatchWriteDone ==
  /\ \E n \in Outstanding, failed \in BOOLEAN :
       /\ ~IsLastWrite(n)
       /\ acked' = acked \cup {[n |-> n, err |-> failed]}
  /\ UNCHANGED <<pc, events, annoVars, arg, ret, ctxVars, visitVars,
                 bookmarkVars, batch, batchCount,
                 faviconPersistedForReverseHost, written, placeRows>>

\* The callback of the last batch.write: reject with the scan's error, or
\* resolve, after which the chain runs allDone.  It takes no argument: the
\* outcome of the commit is not looked at.
LastWriteDone ==
  /\ pc \in {"lastWriteThenReject", "lastWriteThenResolve"}
  /\ \E failed \in BOOLEAN :
       acked' = acked \cup {[n |-> Len(written), err |-> failed]}
  /\ pc' = IF pc = "lastWriteThenReject" THEN "fatalError" ELSE "allDone"
  /\ events' = Append(events,
                      IF pc = "lastWriteThenReject"
                        THEN Ev("fatalError", "transformPlaceRecords", TRUE)
                        ELSE Ev("allDone", "allDone", FALSE))
  /\ UNCHANGED <<annoVars, arg, ret, ctxVars, visitVars, bookmarkVars, batch,
                 batchCount, faviconPersistedForReverseHost, written, placeRows>>

----------------------------------------------------------------------------
(* kickoffConversions: the chain of phases *)

\* The scans before slurpHistoryVisits, in the order they are chained.
EarlyPhases == <<"slurpAnnotationAttribs", "slurpAnnotations",
                 "slurpBookmarkAnnotations", "slurpInputHistory",
                 "slurpKeywords", "slurpFavicons", "slurpHistoryVisits">>

\* The completion callback of one of the scans before slurpHistoryVisits:
\* reject on an error (the chain then calls fatalError alone), else resolve
\* (the chain calls the next phase).
EarlyScanComplete ==
  /\ \E i \in 1..(Len(EarlyPhases) - 1) :
       /\ pc = EarlyPhases[i]
       /\ \E err \in BOOLEAN :
            /\ pc' = IF err THEN "fatalError" ELSE EarlyPhases[i + 1]
            /\ events' = Settled(pc, err, EarlyPhases[i + 1])
  /\ UNCHANGED <<arg, ret, runVars>>

\* One call of slurpInputHistory's row callback.  The inputs of a place
\* are an object keyed by the typed string: a sequence of [input, useCount]
\* in insertion order, an input typed again keeping its place.
SlurpInputHistoryRow(places, typeds, counts) ==
  /\ pc = "slurpInputHistory"
  /\ \E place_id \in places, input \in typeds, use_count \in counts :
       LET inputs == Lookup(inputHistoryByPlaceId, place_id)
           at == {i \in 1..Len(inputs) : inputs[i].input = input}
           entry == [input |-> input, useCount |-> use_count]
       IN inputHistoryByPlaceId' =
            Put(inputHistoryByPlaceId, place_id,
                IF at = {} THEN Append(inputs, entry)
                ELSE [inputs EXCEPT ![CHOOSE i \in at : TRUE] = entry])
  /\ UNCHANGED <<pc, events, annoVars, arg, ret,
                 annotationsByPlaceId, faviconsById,
                 visitsByPlaceId, bookmarkRoots, bookmarkHierarchy,
                 bookmarksByPlaceId, tagsByPlaceId, visitVars, bookmarkVars,
                 transformVars>>

MaxRunInputs == 1
MaxRunVisits == 2
MaxRunBookmarks == 2
MaxRunPlaces == 1

U_a == <<"h", ":", "/", "/", "a", ".", "o", "r", "g", "/">>
U_ax == <<"h", ":", "/", "/", "a", ".", "o", "r", "g", "/", "x">>
RunUrls == {U_a, U_ax}
RunDates == {Big(1700000, 0), Big(1700000, 1)}

Init ==
  /\ pc = "slurpAnnotationAttribs" /\ arg = <<>> /\ ret = <<>>
  /\ RunStart

RunInputHistoryRow ==
  /\ Len(Lookup(inputHistoryByPlaceId, 1)) < MaxRunInputs
  /\ SlurpInputHistoryRow({1}, {<<"f", "o">>}, {1})

RunVisitsRow ==
  /\ Len(visitRows) < MaxRunVisits
  /\ SlurpHistoryVisitsRow(RunDates, {1}, {0, 1})

RunRootsRow == SlurpBookmarkRootsRow({S_tags, S_menu}, 1..MaxRunBookmarks)

RunBookmarksRow ==
  /\ Len(flatBookmarks) < MaxRunBookmarks
  /\ SlurpBookmarksRow(0..1, BookmarkKinds)

\* moz_places ORDER BY url: urls ascend; url and id are unique.
RunPlaceRow ==
  /\ Len(placeRows) < MaxRunPlaces
  /\ \E url \in RunUrls, id \in 1..2, frecency \in {100, 50000} :
       /\ \A i \in 1..Len(placeRows) :
            StrLess(placeRows[i].url, url) /\ placeRows[i].id # id
       /\ TransformPlaceRow([id |-> id, url |-> url,
                             rev_host |-> <<"g", "r", "o", ".", "a", ".">>,
                             title |-> S_Food, frecency |-> frecency,
                             favicon_id |-> 0])

Next ==
  \/ EarlyScanComplete \/ RunInputHistoryRow
  \/ RunVisitsRow \/ SlurpHistoryVisitsComplete
  \/ RunRootsRow \/ SlurpBookmarkRootsComplete
  \/ RunBookmarksRow \/ SlurpBookmarksComplete
  \/ RunPlaceRow \/ TransformComplete \/ LastWriteDone
Spec == Init /\ [][Next]_vars

RECURSIVE ConcatAll(_, _)
ConcatAll(seqs, i) ==
  IF i > Len(seqs) THEN <<>> ELSE seqs[i] \o ConcatAll(seqs, i + 1)

\* Every put of every batch handed to batch.write, in order.
WrittenPuts == ConcatAll(written, 1)

PutsAt(ns, key) ==
  {i \in 1..Len(WrittenPuts) :
     WrittenPuts[i].ns = ns /\ WrittenPuts[i].key = key}

PlaceOf(id) ==
  placeRows[CHOOSE i \in 1..Len(placeRows) : placeRows[i].id = id]
PlaceIds == {placeRows[i].id : i \in 1..Len(placeRows)}

\* C4: in a run that completes, every visit of a place of the source has an
\* 'H' record under its key, with the place's url and the key of the visit
\* it came from (none when from_visit is absent or not scanned before it).
C4_HistoryByTime ==
  pc = "allDone" =>
    \A n \in 1..Len(visitRows) :
      LET v == visitRows[n]
          prevKey == IF v.from_visit \in 1..(n - 1)
                       THEN keyByVisitId[v.from_visit] ELSE <<>>
      IN v.place_id \in PlaceIds =>
           \E i \in PutsAt("H", <<keyByVisitId[v.id]>>) :
             /\ WrittenPuts[i].value.url = PlaceOf(v.place_id).url
             /\ WrittenPuts[i].value.prevKey = prevKey

\* C5: every visit of a place has an 'h' record keyed (reversed host, the
\* visit's timestamp key, url) with no value, so the n visits of a url have
\* n distinct 'h' keys.
C5_HistoryByPlace ==
  pc = "allDone" =>
    /\ \A n \in 1..Len(visitRows) :
         LET v == visitRows[n]
         IN v.place_id \in PlaceIds =>
              \E i \in PutsAt("h", <<PlaceOf(v.place_id).rev_host,
                                     keyByVisitId[v.id],
                                     PlaceOf(v.place_id).url>>) :
                WrittenPuts[i].value = <<>>
    /\ \A p \in PlaceIds :
         Cardinality({WrittenPuts[i].key : i \in
                        {j \in 1..Len(WrittenPuts) :
                           /\ WrittenPuts[j].ns = "h"
                           /\ WrittenPuts[j].key[Len(WrittenPuts[j].key)]
                                = PlaceOf(p).url}})
           = Cardinality({n \in 1..Len(visitRows) :
                            visitRows[n].place_id = p})

\* The number of kids links from one of the bookmarks in from to id.
RECURSIVE DepthFrom(_, _, _)
DepthFrom(from, id, d) ==
  IF id \in from THEN d
  ELSE DepthFrom(UNION {Range(bookmarksById[b].kids) :
                          b \in from \cap DOMAIN bookmarksById}, id, d + 1)

NonTagsRootIds ==
  {bookmarkHierarchy[i].folder_id : i \in
     {j \in 1..Len(bookmarkHierarchy) :
        bookmarkHierarchy[j].root_name # S_tags}}

\* C6: in a run that completes, a bookmark linked to a place and reachable
\* from a root other than tags has exactly one 'B' record keyed (depth,
\* parentId, id) with the place's url and tags, and exactly one 'b' record
\* keyed (url, id) with its parentId.
C6_BookmarkRecords ==
  pc = "allDone" =>
    \A id \in DOMAIN bookmarksById \cap TraversedBookmarks :
      LET b == bookmarksById[id]
      IN b.placeId \in PlaceIds =>
           LET url == PlaceOf(b.placeId).url
               Bs == PutsAt("B", <<DepthFrom(NonTagsRootIds, id, 0),
                                   b.parentId, id>>)
               bs == PutsAt("b", <<url, id>>)
           IN /\ Cardinality(Bs) = 1
              /\ \A i \in Bs :
                   /\ WrittenPuts[i].value.url = url
                   /\ WrittenPuts[i].value.tags
                        = Lookup(tagsByPlaceId, b.placeId)
              /\ Cardinality(bs) = 1
              /\ \A i \in bs : WrittenPuts[i].value = [parentId |-> b.parentId]

----------------------------------------------------------------------------
(* transformPlaceRecords on its own: a scan long enough to fill a batch *)

MaxBatchRows == 1002

\* The n-th row of moz_places ORDER BY url: ids and urls are unique, the
\* urls ascend.  No table but moz_places has a row.
BatchRow(n) ==
  [id |-> n, url |-> U_a \o ZeroFill(NatDigits(n), 4),
   rev_host |-> <<"g", "r", "o", ".", "a", ".">>,
   title |-> S_Food, frecency |-> 100, favicon_id |-> 0]

InitBatch ==
  /\ pc = "transformPlaceRecords" /\ arg = <<>> /\ ret = <<>>
  /\ RunStart

BatchPlaceRow ==
  /\ Len(placeRows) < MaxBatchRows
  /\ TransformPlaceRow(BatchRow(Len(placeRows) + 1))

NextBatch ==
  \/ BatchPlaceRow \/ TransformComplete \/ BatchWriteDone \/ LastWriteDone
SpecBatch == InitBatch /\ [][NextBatch]_vars

\* The place rows whose records a batch holds: one 'I' put per row.
RowsIn(b) == Cardinality({j \in 1..Len(b) : b[j].ns = "I"})

\* The batches submitted by the row callback, before the scan completes.
SubmittedDuringScan ==
  IF pc = "transformPlaceRecords" THEN 1..Len(written)
  ELSE 1..(Len(written) - 1)

\* C11: every batch submitted before the scan completes holds the records
\* of exactly BATCH_LIMIT place rows, and the batch being filled never holds
\* the records of BATCH_LIMIT rows or more once the row callback returns.
C11_BatchHoldsLimit ==
  /\ \A n \in SubmittedDuringScan : RowsIn(written[n]) = BATCH_LIMIT
  /\ RowsIn(batch) < BATCH_LIMIT

----------------------------------------------------------------------------
(* The order of the phases: the whole chain over tables of a row or so *)

MaxChainRows == 1

ChainInputHistoryRow ==
  /\ Len(Lookup(inputHistoryByPlaceId, 1)) < MaxChainRows
  /\ SlurpInputHistoryRow({1}, {<<"f", "o">>, <<"f", "o", "o">>}, {1})

ChainVisitsRow ==
  /\ Len(visitRows) < MaxChainRows
  /\ SlurpHistoryVisitsRow({Big(1700000, 0)}, {1}, {0})

ChainRootsRow ==
  /\ Len(bookmarkRoots) < MaxChainRows
  /\ SlurpBookmarkRootsRow({S_tags, S_menu}, {1})

ChainBookmarksRow ==
  /\ Len(flatBookmarks) < MaxChainRows
  /\ SlurpBookmarksRow({0}, BookmarkKinds)

ChainPlaceRow ==
  /\ Len(placeRows) < MaxChainRows
  /\ TransformPlaceRow(BatchRow(Len(placeRows) + 1))

NextChain ==
  \/ EarlyScanComplete \/ ChainInputHistoryRow
  \/ ChainVisitsRow \/ SlurpHistoryVisitsComplete
  \/ ChainRootsRow \/ SlurpBookmarkRootsComplete
  \/ ChainBookmarksRow \/ SlurpBookmarksComplete
  \/ ChainPlaceRow \/ TransformComplete \/ LastWriteDone

\* The store fires the callback of a write it was handed.
SpecChain == Init /\ [][NextChain]_vars /\ WF_vars(LastWriteDone)

\* theGreatPromiseChain, in the order of its then() calls
ChainPhases == EarlyPhases \o <<"slurpBookmarkRoots", "slurpBookmarks",
                                "transformPlaceRecords">>

PhaseIndex(phase) == CHOOSE k \in 1..Len(ChainPhases) : ChainPhases[k] = phase

EventsOf(kind) == {i \in 1..Len(events) : events[i].ev = kind}
FailedScans == {i \in EventsOf("complete") : events[i].err}

\* A phase is started right after the completion callback of the phase
\* before it in the chain has fired without error, and only then.
StartsInOrder ==
  \A i \in EventsOf("start") :
    /\ i > 1
    /\ events[i - 1] = Ev("complete",
                          ChainPhases[PhaseIndex(events[i].phase) - 1], FALSE)
    /\ \A j \in EventsOf("start") : events[j].phase = events[i].phase => j = i

\* After a scan has completed with an error no phase is started and allDone
\* is not called; fatalError is called once at most, and for that scan.
FailureShortCircuits ==
  \A i \in FailedScans :
    /\ \A j \in EventsOf("start") \cup EventsOf("allDone") : j < i
    /\ \A j \in EventsOf("fatalError") : j > i /\ events[j].phase = events[i].phase
    /\ Cardinality(EventsOf("fatalError")) <= 1
    /\ pc = "fatalError" <=> Cardinality(EventsOf("fatalError")) = 1

C12_Safety ==
  /\ StartsInOrder
  /\ FailureShortCircuits
  /\ pc \in Range(ChainPhases) =>
        pc = IF EventsOf("start") = {} THEN ChainPhases[1]
             ELSE events[CHOOSE i \in EventsOf("start") :
                           \A j \in EventsOf("start") : j <= i].phase

\* C12: the phases run one after another, each started only after the scan
\* before it completed without error; once a scan has completed with an
\* error no later phase starts and allDone is not called, and fatalError is
\* called, exactly once.
C12_PhasesInSequence ==
  /\ []C12_Safety
  /\ (FailedScans # {}) ~> (Cardinality(EventsOf("fatalError")) = 1)

\* The place scan, started after nine scans completed without error, has
\* completed with an error, and fatalError has been called.
C12_Witness ==
  /\ pc = "fatalError"
  /\ Cardinality(EventsOf("start")) = Len(ChainPhases) - 1
  /\ \E i \in FailedScans : events[i].phase = "transformPlaceRecords"
  /\ Len(placeRows) > 0

----------------------------------------------------------------------------
(* The commits of the batches *)

\* C13: once the chain has ended, if the commit of a batch reported an
\* error, it has ended in fatalError and allDone was not called.
C13_CommitFailureIsFatal ==
  (pc \in {"allDone", "fatalError"} /\ \E a \in acked : a.err) =>
    /\ pc = "fatalError"
    /\ EventsOf("allDone") = {}

\* C14: when allDone is called, the write callback of every batch handed
\* to batch.write has fired.
C14_AllCommittedAtClose ==
  pc = "allDone" => Outstanding = {}

----------------------------------------------------------------------------
(* The annotation scans *)

\* One call of slurpAnnotationAttribs' row callback.  An attribute's id is
\* its scan position; name is UNIQUE in moz_anno_attributes.
SlurpAnnotationAttribsRow(names) ==
  /\ pc = "slurpAnnotationAttribs"
  /\ \E name \in names \ Range(annoAttribsById) :
       annoAttribsById' =
         Put(annoAttribsById, Cardinality(DOMAIN annoAttribsById) + 1, name)
  /\ UNCHANGED <<pc, events, arg, ret, ctxVars, annotationsByBookmarkId,
                 annoRows, itemAnnoRows, visitVars, bookmarkVars,
                 transformVars>>

\* The value stored for an annotation row.  The columns copied next to
\* content (mime_type, flags, expiration, type, dateAdded, lastModified)
\* are copied the same way and left out.
AnnoValue(row) == [content |-> row.content]

\* One call of slurpAnnotations' row callback.  An annos object maps the
\* attribute's name to the value.
SlurpAnnotationsRow(row) ==
  /\ pc = "slurpAnnotations"
  /\ LET annos == Lookup(annotationsByPlaceId, row.place_id)
     IN annotationsByPlaceId' =
          Put(annotationsByPlaceId, row.place_id,
              Put(annos, annoAttribsById[row.anno_attribute_id],
                  AnnoValue(row)))
  /\ annoRows' = Append(annoRows, row)
  /\ UNCHANGED <<pc, events, arg, ret, annoAttribsById,
                 annotationsByBookmarkId, itemAnnoRows,
                 inputHistoryByPlaceId, faviconsById, visitsByPlaceId,
                 bookmarkRoots, bookmarkHierarchy, bookmarksByPlaceId,
                 tagsByPlaceId, visitVars, bookmarkVars, transformVars>>

\* One call of slurpBookmarkAnnotations' row callback.  annos is looked up
\* in ctx.annotationsByPlaceId under the item's id; an object found there
\* is the one written to, and when none is found a new object is stored in
\* ctx.annotationsByBookmarkId, in place of what the item had.
SlurpBookmarkAnnotationsRow(row) ==
  /\ pc = "slurpBookmarkAnnotations"
  /\ LET name == annoAttribsById[row.anno_attribute_id]
     IN IF Has(annotationsByPlaceId, row.item_id)
          THEN /\ annotationsByPlaceId' =
                    Put(annotationsByPlaceId, row.item_id,
                        Put(annotationsByPlaceId[row.item_id], name,
                            AnnoValue(row)))
               /\ UNCHANGED annotationsByBookmarkId
          ELSE /\ annotationsByBookmarkId' =
                    Put(annotationsByBookmarkId, row.item_id,
                        Put(EmptyMap, name, AnnoValue(row)))
               /\ UNCHANGED annotationsByPlaceId
  /\ itemAnnoRows' = Append(itemAnnoRows, row)
  /\ UNCHANGED <<pc, events, arg, ret, annoAttribsById, annoRows,
                 inputHistoryByPlaceId, faviconsById, visitsByPlaceId,
                 bookmarkRoots, bookmarkHierarchy, bookmarksByPlaceId,
                 tagsByPlaceId, visitVars, bookmarkVars, transformVars>>

MaxAnnoAttribs == 2
MaxAnnos == 2
MaxItemAnnos == 2
MaxAnnoId == 2

N_desc == <<"d", "e", "s", "c">>
N_feed == <<"f", "e", "e", "d">>

InitAnnos ==
  /\ pc = "slurpAnnotationAttribs" /\ arg = <<>> /\ ret = <<>>
  /\ RunStart

AnnoAttribsRow ==
  /\ Cardinality(DOMAIN annoAttribsById) < MaxAnnoAttribs
  /\ SlurpAnnotationAttribsRow({N_desc, N_feed})

\* A row of moz_annos: (place_id, anno_attribute_id) is UNIQUE, and the
\* attribute is one of moz_anno_attributes.
AnnosRow ==
  /\ Len(annoRows) < MaxAnnos
  /\ \E place_id \in 1..MaxAnnoId, attr \in DOMAIN annoAttribsById :
       /\ \A i \in 1..Len(annoRows) :
            <<annoRows[i].place_id, annoRows[i].anno_attribute_id>>
              # <<place_id, attr>>
       /\ SlurpAnnotationsRow([place_id |-> place_id,
                               anno_attribute_id |-> attr,
                               content |-> <<"p">>])

\* A row of moz_items_annos: (item_id, anno_attribute_id) is UNIQUE.
ItemAnnosRow ==
  /\ Len(itemAnnoRows) < MaxItemAnnos
  /\ \E item_id \in 1..MaxAnnoId, attr \in DOMAIN annoAttribsById :
       /\ \A i \in 1..Len(itemAnnoRows) :
            <<itemAnnoRows[i].item_id, itemAnnoRows[i].anno_attribute_id>>
              # <<item_id, attr>>
       /\ SlurpBookmarkAnnotationsRow([item_id |-> item_id,
                                       anno_attribute_id |-> attr,
                                       content |-> <<"b">>])

NextAnnos ==
  \/ AnnoAttribsRow \/ AnnosRow \/ ItemAnnosRow \/ EarlyScanComplete
SpecAnnos == InitAnnos /\ [][NextAnnos]_vars

\* The names and values the rows of a table give the owner id; rows is
\* annoRows with owner "place_id", or itemAnnoRows with owner "item_id".
RowsOf(rows, owner, id) == {i \in 1..Len(rows) : rows[i][owner] = id}

HoldsRows(map, rows, owner) ==
  \A id \in 1..MaxAnnoId :
    LET annos == Lookup(map, id)
        mine == RowsOf(rows, owner, id)
    IN /\ DOMAIN annos =
            {annoAttribsById[rows[i].anno_attribute_id] : i \in mine}
       /\ \A i \in mine :
            annos[annoAttribsById[rows[i].anno_attribute_id]]
              = AnnoValue(rows[i])

\* C15: once slurpBookmarkAnnotations has completed, annotationsByBookmarkId
\* holds for every bookmark one entry per annotation name of its rows of
\* moz_items_annos, and annotationsByPlaceId holds what the rows of
\* moz_annos gave it and nothing else.
C15_BookmarkAnnotationsKeptApart ==
  (\E i \in EventsOf("complete") :
      events[i].phase = "slurpBookmarkAnnotations") =>
    /\ HoldsRows(annotationsByBookmarkId, itemAnnoRows, "item_id")
    /\ HoldsRows(annotationsByPlaceId, annoRows, "place_id")

====
